---- MODULE Spec2Model ----
(***************************************************************************)
(* FriendlyWeapon: the URL Builder (generate_urls.py) and the Action       *)
(* Runner (main.py).  A line of text is a sequence of one-character        *)
(* strings; a file is a record [exists, lines].  The browser library is    *)
(* the environment: every awaited browser call returns, times out or       *)
(* raises, chosen nondeterministically.                                    *)
(***************************************************************************)
EXTENDS Integers, Sequences, FiniteSets, TLC

\* ------------------------------------------------------------ constants
MAX_CONCURRENT_PAGES == 3
MAX_RETRIES == 2

\* ------------------------------------------------------------ bounds
\* lines of input.txt: at most MaxLines lines of at most MaxLineLen characters
MaxLineLen == 2
MaxLines == 2
\* URLs in output_urls.txt for a crawl
MaxUrls == 4
\* load of a behaviour: the tasks of the first run, plus the browser calls that do not
\* simply succeed (a timeout, an exception, a missing button) over all runs
MaxLoad == 4
\* runs of main() in a row
MaxRuns == 2

\* ------------------------------------------------------------ text
Whitespace == {" "}
Separator == "~"
Alphabet == {"a", Separator, " "}

SeqsUpTo(S, n) == UNION {[1..k -> S] : k \in 0..n}

RECURSIVE LStrip(_)
LStrip(s) == IF s # <<>> /\ Head(s) \in Whitespace THEN LStrip(Tail(s)) ELSE s

RECURSIVE RStrip(_)
RStrip(s) ==
    IF s # <<>> /\ s[Len(s)] \in Whitespace THEN RStrip(SubSeq(s, 1, Len(s) - 1)) ELSE s

\* str.lstrip() in place of str.strip()
StripLeftOnly(s) == LStrip(s)

\* str.strip()
Strip(s) == RStrip(LStrip(s))

\* '~' in clean_line
Contains(s, c) == \E k \in 1..Len(s) : s[k] = c

\* str.split('~'): the fields between separators, left to right
RECURSIVE SplitFrom(_, _, _)
SplitFrom(s, k, cur) ==
    IF k > Len(s) THEN <<cur>>
    ELSE IF s[k] = Separator THEN <<cur>> \o SplitFrom(s, k + 1, <<>>)
    ELSE SplitFrom(s, k + 1, Append(cur, s[k]))

Split(s) == SplitFrom(s, 1, <<>>)

\* the field index of clean_line.split('~')[1], counted from 1
FieldIndex == 2

\* f"https://remilia.com/~{username}"
FormatUrl(username) == <<"https://remilia.com/~">> \o username

NoFile == [exists |-> FALSE, lines |-> <<>>]
File(ls) == [exists |-> TRUE, lines |-> ls]

VARIABLES
    \* URL Builder
    infile,          \* input.txt
    urlFile,         \* output_urls.txt: written by the builder, read by the runner
    bpc,             \* "idle" | "loop" | "done" | "failed"
    bidx,            \* lines of infile consumed by the for loop
    warnings,        \* lines reported as malformed
    \* Action Runner: files
    processedFile,   \* processed_urls.txt
    authFile,        \* playwright_auth_state.json exists
    \* Action Runner: main()
    mpc,             \* position of main()
    processed_urls,  \* the set read from processed_urls.txt
    urls_to_process, \* the work list
    results,         \* the results list
    sem,             \* semaphore value
    browserV,        \* the visible login browser: "none" | "open" | "closed"
    browserH,        \* the headless browser: "none" | "open" | "closed" | "killed"
    summary,         \* <<success_count, total>> once printed, else <<>>
    \* Action Runner: one entry per task, index into urls_to_process
    tpc,             \* position of run_task / click_buttons_on_page
    attempt,         \* loop variable
    page,            \* 0 = None, k = the page opened by attempt k-1
    status_b1,
    status_b2,
    error_message,
    pages,           \* pages[i][k]: [st, closes] of the page task i opened in attempt k-1
    \* instrumentation
    navAttempts,     \* page.goto calls of task i
    navTimeouts,     \* page.goto calls of task i that timed out
    otherFaults,     \* other calls of task i that timed out or raised
    clicks,          \* successful page.click calls of task i, per button, over all attempts
    cond,            \* cond[i][b]: what button b was on the last page clicked on
    appends,         \* lines task i appended to processed_urls.txt
    startLog,        \* processed_urls.txt when the run started
    authAtStart,     \* authFile when the run started
    authWrites,      \* writes of the session artifact in this run
    loginSignalled,  \* the operator closed the login window in this run
    budget,
    runs

builderVars == <<infile, bpc, bidx, warnings>>
fileVars == <<processedFile, authFile>>
mainVars == <<mpc, processed_urls, urls_to_process, results, sem, browserV, browserH, summary>>
taskVars == <<tpc, attempt, page, status_b1, status_b2, error_message, pages>>
histVars == <<navAttempts, navTimeouts, otherFaults, clicks, cond, appends,
              startLog, authAtStart, authWrites, loginSignalled>>
vars == <<builderVars, urlFile, fileVars, mainVars, taskVars, histVars, budget, runs>>

\* ------------------------------------------------------------ URL Builder
runnerVars == <<fileVars, mainVars, taskVars, histVars, budget, runs>>

\* generate_remilia_urls up to the for loop: both files are opened, the output truncated
BOpen ==
    /\ bpc = "idle"
    /\ IF infile.exists
       THEN /\ bpc' = "loop"
            /\ urlFile' = File(<<>>)
       ELSE /\ bpc' = "failed"
            /\ UNCHANGED urlFile
    /\ bidx' = 0
    /\ warnings' = <<>>
    /\ UNCHANGED <<infile, runnerVars>>

\* the lines one iteration of the for loop writes to the output file
LineOutput(line) ==
    LET clean_line == Strip(line)
        fields == Split(clean_line)
    IN  IF Contains(clean_line, Separator) /\ Len(fields) >= FieldIndex
        THEN <<FormatUrl(fields[FieldIndex])>>
        ELSE <<>>

\* the warnings one iteration prints: the IndexError branch
LineWarning(line) ==
    LET clean_line == Strip(line)
    IN  IF Contains(clean_line, Separator) /\ Len(Split(clean_line)) < FieldIndex
        THEN <<clean_line>>
        ELSE <<>>

\* one iteration of "for line in infile"
BLine ==
    /\ bpc = "loop"
    /\ bidx < Len(infile.lines)
    /\ LET line == infile.lines[bidx + 1]
       IN  /\ urlFile' = File(urlFile.lines \o LineOutput(line))
           /\ warnings' = warnings \o LineWarning(line)
    /\ bidx' = bidx + 1
    /\ UNCHANGED <<bpc, infile, runnerVars>>

\* the loop ends, the files are closed and the success message printed
BClose ==
    /\ bpc = "loop"
    /\ bidx = Len(infile.lines)
    /\ bpc' = "done"
    /\ UNCHANGED <<urlFile, bidx, warnings, infile, runnerVars>>

BuilderNext == BOpen \/ BLine \/ BClose

\* ------------------------------------------------------------ Action Runner: main()
\* a run that has not started
RunIdle ==
    /\ mpc = "start"
    /\ processed_urls = {}
    /\ urls_to_process = <<>>
    /\ results = <<>>
    /\ sem = 0
    /\ browserV = "none"
    /\ browserH = "none"
    /\ summary = <<>>
    /\ tpc = <<>>
    /\ attempt = <<>>
    /\ page = <<>>
    /\ status_b1 = <<>>
    /\ status_b2 = <<>>
    /\ error_message = <<>>
    /\ pages = <<>>
    /\ navAttempts = <<>>
    /\ navTimeouts = <<>>
    /\ otherFaults = <<>>
    /\ clicks = <<>>
    /\ cond = <<>>
    /\ appends = <<>>
    /\ startLog = NoFile
    /\ authAtStart = FALSE
    /\ authWrites = 0
    /\ loginSignalled = FALSE

\* processed_urls = set(line.strip() for line in f)
ReadProcessed(f) == IF f.exists THEN {Strip(f.lines[k]) : k \in 1..Len(f.lines)} ELSE {}

\* a work list that ignores the processed set
RECURSIVE WorkListAll(_, _)
WorkListAll(lines, processed) ==
    IF lines = <<>> THEN <<>>
    ELSE LET u == Strip(Head(lines))
         IN  (IF u # <<>> THEN <<u>> ELSE <<>>) \o WorkListAll(Tail(lines), processed)

\* [line.strip() for line in f if line.strip() and line.strip() not in processed_urls]
RECURSIVE WorkList(_, _)
WorkList(lines, processed) ==
    IF lines = <<>> THEN <<>>
    ELSE LET u == Strip(Head(lines))
         IN  (IF u # <<>> /\ u \notin processed THEN <<u>> ELSE <<>>)
                 \o WorkList(Tail(lines), processed)

\* the tasks gather has created, one per entry of the work list
Tasks == 1..Len(tpc)

\* a missing output_urls.txt that does not stop the run
OnMissingInputGoesOn == "pw_start"

\* "if not os.path.exists(input_path)": the error is printed and main() returns
OnMissingInput == "returned"

\* main() from its entry to "async with async_playwright()"
MainStart ==
    /\ mpc = "start"
    /\ processed_urls' = ReadProcessed(processedFile)
    /\ startLog' = processedFile
    /\ authAtStart' = authFile
    /\ IF ~urlFile.exists
       THEN /\ mpc' = OnMissingInput
            /\ UNCHANGED urls_to_process
       ELSE /\ urls_to_process' = WorkList(urlFile.lines, processed_urls')
            /\ mpc' = IF urls_to_process' = <<>> THEN "returned" ELSE "pw_start"
    /\ UNCHANGED <<builderVars, urlFile, fileVars, results, sem, browserV, browserH, summary,
                   taskVars, navAttempts, navTimeouts, otherFaults, clicks, cond, appends,
                   authWrites, loginSignalled, budget, runs>>

\* the awaits of main() that only return, and the await that follows each
PassThrough == {"v_context", "v_page", "v_goto", "h_context"}
AfterAwait(pc) ==
    CASE pc = "v_context" -> "v_page"
      [] pc = "v_page" -> "v_goto"
      [] pc = "v_goto" -> "v_wait"
      [] pc = "h_context" -> "h_stealth"

MainAwaits == PassThrough \cup
    {"pw_start", "v_launch", "v_wait", "v_storage", "v_close", "h_launch", "h_stealth",
     "h_close", "pw_stop"}

\* a run that never logs in
NeedsLoginNever(af) == FALSE

\* "if not os.path.exists(auth_path)"
NeedsLogin(af) == ~af

\* async_playwright() started: the login test picks the browser to launch
MainEntered ==
    /\ mpc = "pw_start"
    /\ mpc' = IF NeedsLogin(authFile) THEN "v_launch" ELSE "h_launch"
    /\ UNCHANGED <<builderVars, urlFile, fileVars, processed_urls, urls_to_process, results, sem,
                   browserV, browserH, summary, taskVars, histVars, budget, runs>>

\* the one-time login: launch, new_context, new_page, goto, wait_for_event('close'),
\* storage_state, browser.close, each awaited call returning
MainLogin ==
    /\ mpc \in {"v_launch", "v_context", "v_page", "v_goto", "v_wait", "v_storage", "v_close"}
    /\ mpc' = CASE mpc = "v_launch" -> "v_context"
                [] mpc = "v_wait" -> "v_storage"
                [] mpc = "v_storage" -> "v_close"
                [] mpc = "v_close" -> "h_launch"
                [] OTHER -> AfterAwait(mpc)
    /\ browserV' = CASE mpc = "v_launch" -> "open"
                     [] mpc = "v_close" -> "closed"
                     [] OTHER -> browserV
    /\ loginSignalled' = (loginSignalled \/ mpc = "v_wait")
    /\ authFile' = (authFile \/ mpc = "v_storage")
    /\ authWrites' = IF mpc = "v_storage" THEN authWrites + 1 ELSE authWrites
    /\ UNCHANGED <<builderVars, urlFile, processedFile, processed_urls, urls_to_process, results,
                   sem, browserH, summary, taskVars, navAttempts, navTimeouts, otherFaults,
                   clicks, cond, appends, startLog, authAtStart, budget, runs>>

NoPages == [k \in 1..(MAX_RETRIES + 1) |-> [st |-> "none", closes |-> 0]]

\* the headless browser: launch, new_context(storage_state=auth_path), apply_stealth_async,
\* then the semaphore, the results list and the tasks handed to asyncio.gather
MainHeadless ==
    /\ mpc \in {"h_launch", "h_context", "h_stealth"}
    /\ mpc' = CASE mpc = "h_launch" -> "h_context"
                [] mpc = "h_stealth" -> "gather"
                [] OTHER -> AfterAwait(mpc)
    /\ browserH' = IF mpc = "h_launch" THEN "open" ELSE browserH
    /\ IF mpc = "h_stealth"
       THEN /\ sem' = MAX_CONCURRENT_PAGES
            /\ results' = <<>>
            /\ tpc' = [i \in 1..Len(urls_to_process) |-> "created"]
            /\ attempt' = [i \in 1..Len(urls_to_process) |-> 0]
            /\ page' = [i \in 1..Len(urls_to_process) |-> 0]
            /\ status_b1' = [i \in 1..Len(urls_to_process) |-> "unset"]
            /\ status_b2' = [i \in 1..Len(urls_to_process) |-> "unset"]
            /\ error_message' = [i \in 1..Len(urls_to_process) |-> "unset"]
            /\ pages' = [i \in 1..Len(urls_to_process) |-> NoPages]
            /\ navAttempts' = [i \in 1..Len(urls_to_process) |-> 0]
            /\ navTimeouts' = [i \in 1..Len(urls_to_process) |-> 0]
            /\ otherFaults' = [i \in 1..Len(urls_to_process) |-> 0]
            /\ clicks' = [i \in 1..Len(urls_to_process) |-> <<0, 0>>]
            /\ cond' = [i \in 1..Len(urls_to_process) |-> <<"unknown", "unknown">>]
            /\ appends' = [i \in 1..Len(urls_to_process) |-> 0]
       ELSE UNCHANGED <<sem, results, taskVars, navAttempts, navTimeouts, otherFaults, clicks,
                        cond, appends>>
    /\ UNCHANGED <<builderVars, urlFile, fileVars, processed_urls, urls_to_process, browserV,
                   summary, startLog, authAtStart, authWrites, loginSignalled, budget, runs>>

\* ------------------------------------------------------------ Action Runner: tasks
Started == \A j \in Tasks : tpc[j] # "created"
FirstWaiter(i) == \A j \in Tasks : j < i => tpc[j] # "waiting"

\* positions of a task inside "async with semaphore"
Holding == {"new_page", "route", "goto", "wait1", "wait2", "click1", "click2", "close",
            "hclose", "sleep"}

\* a semaphore that admits everybody
CanAcquireAlways(value, queued) == TRUE

\* Semaphore.acquire returns at once: a slot is free and nobody queues for it
CanAcquire(value, queued) == value > 0 /\ ~queued

\* a retry test that gives up one attempt early
ShouldRetryOneLess(a) == a < MAX_RETRIES - 1

\* "if attempt < MAX_RETRIES": another attempt follows
ShouldRetry(a) == a < MAX_RETRIES

\* a first click whose timeout skips the second action
AfterClickSkipsPoke(b) == "close"

\* the await that follows the try/except of click b
AfterClick(b) == IF b = 1 THEN "click2" ELSE "close"

\* what "except PlaywrightTimeoutError" around a click records
StatusOnClickTimeout == "Skipped (Not found/disabled)"

\* f"Success: Friend={status_b1}, Poke={status_b2}" and f"Failed: {error_message}"
SuccessStatus(b1, b2) == <<"Success", b1, b2>>
FailedStatus(msg) == <<"Failed", msg>>

\* a call of task i did not simply succeed: kind is "nav" (page.goto timed out), "fault"
\* (another call timed out or raised) or "absent" (the button is not on the page)
Fault(i, kind) ==
    /\ budget > 0
    /\ budget' = budget - 1
    /\ navTimeouts' = [navTimeouts EXCEPT ![i] = IF kind = "nav" THEN @ + 1 ELSE @]
    /\ otherFaults' = [otherFaults EXCEPT ![i] = IF kind = "fault" THEN @ + 1 ELSE @]

NoFault == UNCHANGED <<budget, navTimeouts, otherFaults>>

\* a line written at the head of the log
PrependLine(f, line) == File(<<line>> \o f.lines)

\* a log opened with mode 'w'
WriteLine(f, line) == File(<<line>>)

\* with open(processed_path, 'a', encoding='utf-8') as f: f.write(url + '\n')
AppendLine(f, line) == File(f.lines \o <<line>>)

\* click_buttons_on_page returns st; run_task appends the result, writes the log line and
\* leaves "async with semaphore"
Return(i, st) ==
    /\ tpc' = [tpc EXCEPT ![i] = "done"]
    /\ results' = Append(results, <<urls_to_process[i], st>>)
    /\ processedFile' = AppendLine(processedFile, urls_to_process[i])
    /\ appends' = [appends EXCEPT ![i] = @ + 1]
    /\ sem' = sem + 1

\* the except block after "if page: await page.close()": sleep and retry, or give up
AfterClose(i, msg) ==
    IF ShouldRetry(attempt[i])
    THEN /\ tpc' = [tpc EXCEPT ![i] = "sleep"]
         /\ UNCHANGED <<results, processedFile, appends, sem>>
    ELSE Return(i, FailedStatus(msg))

\* "except Exception as e": an awaited call inside the try raised
Except(i, msg) ==
    /\ error_message' = [error_message EXCEPT ![i] = msg]
    /\ IF page[i] # 0
       THEN /\ tpc' = [tpc EXCEPT ![i] = "hclose"]
            /\ UNCHANGED <<results, processedFile, appends, sem>>
       ELSE AfterClose(i, msg)

Goes(i, pc) ==
    /\ tpc' = [tpc EXCEPT ![i] = pc]
    /\ UNCHANGED <<results, processedFile, appends, sem, error_message>>

Running(i) == mpc = "gather" /\ i \in Tasks /\ Started

\* a task created by gather runs to its first suspension: it takes a slot or queues
TaskStart(i) ==
    /\ mpc = "gather"
    /\ tpc[i] = "created"
    /\ \A j \in Tasks : j < i => tpc[j] # "created"
    /\ IF CanAcquire(sem, \E j \in Tasks : tpc[j] = "waiting")
       THEN /\ sem' = sem - 1
            /\ tpc' = [tpc EXCEPT ![i] = "new_page"]
       ELSE /\ tpc' = [tpc EXCEPT ![i] = "waiting"]
            /\ UNCHANGED sem
    /\ UNCHANGED <<builderVars, urlFile, fileVars, mpc, processed_urls, urls_to_process, results,
                   browserV, browserH, summary, attempt, page, status_b1, status_b2,
                   error_message, pages, histVars, budget, runs>>

\* the first queued task is woken by a release and takes the slot
Acquire(i) ==
    /\ Running(i)
    /\ tpc[i] = "waiting"
    /\ FirstWaiter(i)
    /\ CanAcquire(sem, FALSE)
    /\ sem' = sem - 1
    /\ tpc' = [tpc EXCEPT ![i] = "new_page"]
    /\ UNCHANGED <<builderVars, urlFile, fileVars, mpc, processed_urls, urls_to_process, results,
                   browserV, browserH, summary, attempt, page, status_b1, status_b2,
                   error_message, pages, histVars, budget, runs>>

taskFrame == <<builderVars, urlFile, authFile, mpc, processed_urls, urls_to_process, browserV,
               browserH, summary, startLog, authAtStart, authWrites, loginSignalled, runs>>

\* page = await context.new_page()
TNewPage(i) ==
    /\ Running(i)
    /\ tpc[i] = "new_page"
    /\ \/ /\ NoFault
          /\ page' = [page EXCEPT ![i] = attempt[i] + 1]
          /\ pages' = [pages EXCEPT ![i][attempt[i] + 1].st = "open"]
          /\ Goes(i, "route")
       \/ /\ Fault(i, "fault")
          /\ Except(i, "Error")
          /\ UNCHANGED <<page, pages>>
    /\ UNCHANGED <<taskFrame, attempt, status_b1, status_b2, navAttempts, clicks, cond>>

\* await page.route(...), then page.goto is called
TRoute(i) ==
    /\ Running(i)
    /\ tpc[i] = "route"
    /\ \/ /\ NoFault
          /\ navAttempts' = [navAttempts EXCEPT ![i] = @ + 1]
          /\ Goes(i, "goto")
       \/ /\ Fault(i, "fault")
          /\ Except(i, "Error")
          /\ UNCHANGED navAttempts
    /\ UNCHANGED <<taskFrame, attempt, page, pages, status_b1, status_b2, clicks, cond>>

\* await page.goto(url, wait_until='domcontentloaded', timeout=PAGE_LOAD_TIMEOUT)
TGoto(i) ==
    /\ Running(i)
    /\ tpc[i] = "goto"
    /\ \/ /\ NoFault
          /\ Goes(i, "wait1")
       \/ /\ Fault(i, "nav")
          /\ Except(i, "Timeout")
       \/ /\ Fault(i, "fault")
          /\ Except(i, "Error")
    /\ UNCHANGED <<taskFrame, attempt, page, pages, status_b1, status_b2, navAttempts, clicks,
                   cond>>

\* the ready marker was found: status_b1 = status_b2 = "Not Found", the first click is called
ToClicks(i) ==
    /\ status_b1' = [status_b1 EXCEPT ![i] = "Not Found"]
    /\ status_b2' = [status_b2 EXCEPT ![i] = "Not Found"]
    /\ cond' = [cond EXCEPT ![i] = <<"unknown", "unknown">>]
    /\ Goes(i, "click1")

\* await page.wait_for_selector(DYNAMIC_WAIT_SELECTOR, ...)
TWait1(i) ==
    /\ Running(i)
    /\ tpc[i] = "wait1"
    /\ \/ /\ NoFault
          /\ ToClicks(i)
       \/ /\ Fault(i, "fault")
          /\ Goes(i, "wait2")
          /\ UNCHANGED <<status_b1, status_b2, cond>>
       \/ /\ Fault(i, "fault")
          /\ Except(i, "Error")
          /\ UNCHANGED <<status_b1, status_b2, cond>>
    /\ UNCHANGED <<taskFrame, attempt, page, pages, navAttempts, clicks>>

\* await page.wait_for_selector(FALLBACK_SELECTOR, ...) in the except branch
TWait2(i) ==
    /\ Running(i)
    /\ tpc[i] = "wait2"
    /\ \/ /\ NoFault
          /\ ToClicks(i)
       \/ /\ Fault(i, "fault")
          /\ \E msg \in {"Timeout", "Error"} : Except(i, msg)
          /\ UNCHANGED <<status_b1, status_b2, cond>>
    /\ UNCHANGED <<taskFrame, attempt, page, pages, navAttempts, clicks>>

SetStatus(i, b, v) ==
    IF b = 1
    THEN /\ status_b1' = [status_b1 EXCEPT ![i] = v]
         /\ UNCHANGED status_b2
    ELSE /\ status_b2' = [status_b2 EXCEPT ![i] = v]
         /\ UNCHANGED status_b1

\* await page.click(BUTTON_b_SELECTOR, timeout=ACTION_TIMEOUT) with its try/except
TClick(i, b) ==
    /\ Running(i)
    /\ tpc[i] = (IF b = 1 THEN "click1" ELSE "click2")
    /\ \/ /\ NoFault
          /\ SetStatus(i, b, "Clicked")
          /\ cond' = [cond EXCEPT ![i][b] = "clicked"]
          /\ clicks' = [clicks EXCEPT ![i][b] = @ + 1]
          /\ Goes(i, AfterClick(b))
       \/ /\ Fault(i, "absent")
          /\ SetStatus(i, b, StatusOnClickTimeout)
          /\ cond' = [cond EXCEPT ![i][b] = "absent"]
          /\ Goes(i, AfterClick(b))
          /\ UNCHANGED clicks
       \/ /\ Fault(i, "fault")
          /\ SetStatus(i, b, StatusOnClickTimeout)
          /\ cond' = [cond EXCEPT ![i][b] = "unclickable"]
          /\ Goes(i, AfterClick(b))
          /\ UNCHANGED clicks
       \/ /\ Fault(i, "fault")
          /\ cond' = [cond EXCEPT ![i][b] = "error"]
          /\ Except(i, "Error")
          /\ UNCHANGED <<status_b1, status_b2, clicks>>
    /\ UNCHANGED <<taskFrame, attempt, page, pages, navAttempts>>

\* a page.close() call on page k of task i: it returns, or raises leaving the page as it
\* was or closed
Closed(i, k, ok) ==
    \E st \in (IF ok THEN {"closed"} ELSE {pages[i][k].st, "closed"}) :
        pages' = [pages EXCEPT ![i][k] = [st |-> st, closes |-> @.closes + 1]]

\* await page.close() at the end of the try block, then the return
TClose(i) ==
    /\ Running(i)
    /\ tpc[i] = "close"
    /\ \/ /\ NoFault
          /\ Closed(i, page[i], TRUE)
          /\ Return(i, SuccessStatus(status_b1[i], status_b2[i]))
          /\ UNCHANGED error_message
       \/ /\ Fault(i, "fault")
          /\ Closed(i, page[i], FALSE)
          /\ Except(i, "Error")
    /\ UNCHANGED <<taskFrame, attempt, page, status_b1, status_b2, navAttempts, clicks, cond>>

\* "if page: await page.close()" in the except block
THClose(i) ==
    /\ Running(i)
    /\ tpc[i] = "hclose"
    /\ \/ /\ NoFault
          /\ Closed(i, page[i], TRUE)
          /\ AfterClose(i, error_message[i])
       \/ /\ Fault(i, "fault")
          /\ Closed(i, page[i], FALSE)
          /\ tpc' = [tpc EXCEPT ![i] = "crashed"]
          /\ sem' = sem + 1
          /\ UNCHANGED <<results, processedFile, appends>>
    /\ UNCHANGED <<taskFrame, attempt, page, status_b1, status_b2, error_message, navAttempts,
                   clicks, cond>>

\* await asyncio.sleep(delay), then the next iteration of the for loop calls new_page
TSleep(i) ==
    /\ Running(i)
    /\ tpc[i] = "sleep"
    /\ attempt' = [attempt EXCEPT ![i] = @ + 1]
    /\ Goes(i, "new_page")
    /\ NoFault
    /\ UNCHANGED <<taskFrame, page, pages, status_b1, status_b2, navAttempts, clicks, cond>>

\* ------------------------------------------------------------ Action Runner: the end of a run
\* a count that takes every outcome for a success
SuccessCountAll(rs) == Len(rs)

\* sum(1 for _, status in results if status and status.startswith("Success"))
RECURSIVE SuccessCount(_)
SuccessCount(rs) ==
    IF rs = <<>> THEN 0
    ELSE (IF Head(rs)[2][1] = "Success" THEN 1 ELSE 0) + SuccessCount(Tail(rs))

\* asyncio.gather returns once every task has returned; browser.close() is called
MainGathered ==
    /\ mpc = "gather"
    /\ \A i \in Tasks : tpc[i] = "done"
    /\ mpc' = "h_close"
    /\ UNCHANGED <<builderVars, urlFile, fileVars, processed_urls, urls_to_process, results, sem,
                   browserV, browserH, summary, taskVars, histVars, budget, runs>>

\* await browser.close() returned, the summary is printed and "async with" is left
MainClose ==
    /\ mpc = "h_close"
    /\ browserH' = "closed"
    /\ summary' = <<SuccessCount(results), Len(urls_to_process)>>
    /\ mpc' = "pw_stop"
    /\ UNCHANGED <<builderVars, urlFile, fileVars, processed_urls, urls_to_process, results, sem,
                   browserV, taskVars, histVars, budget, runs>>

\* async_playwright().__aexit__ returned: main() returns
MainStop ==
    /\ mpc = "pw_stop"
    /\ mpc' = "returned"
    /\ UNCHANGED <<builderVars, urlFile, fileVars, processed_urls, urls_to_process, results, sem,
                   browserV, browserH, summary, taskVars, histVars, budget, runs>>

\* what stopping Playwright on the way out of "async with" does to a browser
Killed(b) == IF b = "open" THEN "killed" ELSE b

\* an awaited call of main() raises: nothing catches it, "async with async_playwright()"
\* stops the driver and main() ends with the exception
MainRaise ==
    /\ mpc \in MainAwaits
    /\ budget > 0
    /\ budget' = budget - 1
    /\ mpc' = "crashed"
    /\ browserV' = Killed(browserV)
    /\ browserH' = Killed(browserH)
    /\ UNCHANGED <<builderVars, urlFile, fileVars, processed_urls, urls_to_process, results, sem,
                   summary, taskVars, histVars, runs>>

\* a task ended with an exception: gather raises it in main(), which ends as in MainRaise;
\* asyncio.run cancels the tasks still pending, which leave "async with semaphore"
MainAbort ==
    /\ mpc = "gather"
    /\ \E i \in Tasks : tpc[i] = "crashed"
    /\ mpc' = "crashed"
    /\ tpc' = [i \in Tasks |-> IF tpc[i] \in {"done", "crashed"} THEN tpc[i] ELSE "cancelled"]
    /\ sem' = sem + Cardinality({i \in Tasks : tpc[i] \in Holding})
    /\ browserV' = Killed(browserV)
    /\ browserH' = Killed(browserH)
    /\ UNCHANGED <<builderVars, urlFile, fileVars, processed_urls, urls_to_process, results,
                   summary, attempt, page, status_b1, status_b2, error_message, pages, histVars,
                   budget, runs>>

\* Ctrl-C while main() awaits asyncio.gather: asyncio.run cancels main() and the tasks,
\* "async with async_playwright()" stops the driver on the way out (browser.close() at
\* line 162 is not reached) and KeyboardInterrupt leaves asyncio.run: no handler exists
MainInterrupt ==
    /\ mpc = "gather"
    /\ budget > 0
    /\ budget' = budget - 1
    /\ mpc' = "interrupted"
    /\ tpc' = [i \in Tasks |-> IF tpc[i] \in {"done", "crashed"} THEN tpc[i] ELSE "cancelled"]
    /\ sem' = sem + Cardinality({i \in Tasks : tpc[i] \in Holding})
    /\ browserV' = Killed(browserV)
    /\ browserH' = Killed(browserH)
    /\ UNCHANGED <<builderVars, urlFile, fileVars, processed_urls, urls_to_process, results,
                   summary, attempt, page, status_b1, status_b2, error_message, pages, histVars,
                   runs>>

\* the script is run again on the files the last run left
Restart ==
    /\ mpc \in {"returned", "crashed", "interrupted"}
    /\ runs < MaxRuns
    /\ runs' = runs + 1
    /\ mpc' = "start"
    /\ processed_urls' = {}
    /\ urls_to_process' = <<>>
    /\ results' = <<>>
    /\ sem' = 0
    /\ browserV' = "none"
    /\ browserH' = "none"
    /\ summary' = <<>>
    /\ tpc' = <<>>
    /\ attempt' = <<>>
    /\ page' = <<>>
    /\ status_b1' = <<>>
    /\ status_b2' = <<>>
    /\ error_message' = <<>>
    /\ pages' = <<>>
    /\ navAttempts' = <<>>
    /\ navTimeouts' = <<>>
    /\ otherFaults' = <<>>
    /\ clicks' = <<>>
    /\ cond' = <<>>
    /\ appends' = <<>>
    /\ startLog' = NoFile
    /\ authAtStart' = FALSE
    /\ authWrites' = 0
    /\ loginSignalled' = FALSE
    /\ UNCHANGED <<builderVars, urlFile, fileVars, budget>>

RunnerNext ==
    \/ MainStart \/ MainEntered \/ MainLogin \/ MainHeadless
    \/ MainGathered \/ MainClose \/ MainStop \/ MainRaise \/ MainAbort \/ MainInterrupt
    \/ Restart
    \/ \E i \in Tasks : TaskStart(i)
    \/ \E i \in Tasks : Acquire(i)
    \/ \E i \in Tasks : TNewPage(i)
    \/ \E i \in Tasks : TRoute(i)
    \/ \E i \in Tasks : TGoto(i)
    \/ \E i \in Tasks : TWait1(i)
    \/ \E i \in Tasks : TWait2(i)
    \/ \E i \in Tasks : TClick(i, 1)
    \/ \E i \in Tasks : TClick(i, 2)
    \/ \E i \in Tasks : TClose(i)
    \/ \E i \in Tasks : THClose(i)
    \/ \E i \in Tasks : TSleep(i)

\* ------------------------------------------------------------ specifications
\* the k-th URL of a crawl
Url(k) == FormatUrl([j \in 1..k |-> "a"])

\* output_urls.txt as the builder leaves it: n distinct URLs
UrlFileOf(n) == File([k \in 1..n |-> Url(k)])

\* an output_urls.txt with a blank line and a URL between spaces
PaddedUrlFile == File(<< <<" ">>, <<" ">> \o Url(1) \o <<" ">> >>)

BuilderIdle ==
    /\ infile = NoFile
    /\ bpc = "idle"
    /\ bidx = 0
    /\ warnings = <<>>

\* what MaxLoad leaves for the browser calls, at least one: the tasks of the first run, a
\* login and a log to read each take one unit
InitialBudget(uf, pf, af) ==
    LET load == Len(WorkList(uf.lines, ReadProcessed(pf)))
                  + (IF af THEN 0 ELSE 1) + (IF pf.exists THEN 1 ELSE 0)
    IN  IF load >= MaxLoad THEN 1 ELSE MaxLoad - load

\* the Action Runner, from any of these files on disk
Init ==
    /\ BuilderIdle
    /\ RunIdle
    /\ urlFile \in {NoFile, PaddedUrlFile} \cup {UrlFileOf(n) : n \in 0..MaxUrls}
    /\ processedFile \in {NoFile, File(<<Url(1)>>)}
    /\ authFile \in BOOLEAN
    /\ budget = InitialBudget(urlFile, processedFile, authFile)
    /\ runs = 1

Next == RunnerNext

Spec == Init /\ [][Next]_vars

\* the URL Builder, from any input.txt within the bounds
InputLines == SeqsUpTo(Alphabet, MaxLineLen)

BuilderInit ==
    /\ infile \in {NoFile} \cup {File(ls) : ls \in SeqsUpTo(InputLines, MaxLines)}
    /\ urlFile \in {NoFile, UrlFileOf(1)}
    /\ bpc = "idle"
    /\ bidx = 0
    /\ warnings = <<>>
    /\ RunIdle
    /\ processedFile = NoFile
    /\ authFile = FALSE
    /\ budget = 0
    /\ runs = 1

BuilderSpec == BuilderInit /\ [][BuilderNext]_vars

\* ------------------------------------------------------------ properties
\* the result the results list holds for task i (the URLs of a crawl are distinct)
HasResult(i) == \E k \in 1..Len(results) : results[k][1] = urls_to_process[i]
ResultOf(i) == results[CHOOSE k \in 1..Len(results) : results[k][1] = urls_to_process[i]][2]

HasOpenPage(i) == \E k \in 1..(MAX_RETRIES + 1) : pages[i][k].st = "open"

\* the tasks inside "async with semaphore" that hold an open page
OpenHolders == {i \in Tasks : tpc[i] \in Holding /\ HasOpenPage(i)}

\* C1: at most MAX_CONCURRENT_PAGES tasks hold an open page at any time; a task that has
\* not been admitted (created or queued) has opened no page, and the semaphore never
\* admits more tasks than it has slots.
C1_ConcurrencyCap ==
    /\ Cardinality(OpenHolders) <= MAX_CONCURRENT_PAGES
    /\ Cardinality({i \in Tasks : tpc[i] \in Holding}) <= MAX_CONCURRENT_PAGES
    /\ \A i \in Tasks : tpc[i] \in {"created", "waiting"} => pages[i] = NoPages

\* three tasks hold an open page while a fourth queues for a slot
C1_Witness ==
    /\ Cardinality(OpenHolders) = MAX_CONCURRENT_PAGES
    /\ \E i \in Tasks : tpc[i] = "waiting"

\* C2 (as claimed): when a run ends, every task it scheduled has appended its URL to the
\* processed-URL log exactly once.
C2_EveryTaskAppendsOnce ==
    mpc \in {"returned", "crashed"} => \A i \in Tasks : appends[i] = 1

\* the line without its leading and trailing whitespace, by position
Trimmed(s) ==
    LET inked == {k \in 1..Len(s) : s[k] \notin Whitespace}
    IN  IF inked = {} THEN <<>>
        ELSE SubSeq(s, CHOOSE k \in inked : \A j \in inked : k <= j,
                       CHOOSE k \in inked : \A j \in inked : k >= j)

StartLines == {startLog.lines[k] : k \in 1..Len(startLog.lines)}

\* the lines of output_urls.txt, each without its surrounding whitespace
TrimmedUrlLines == [k \in 1..Len(urlFile.lines) |-> Trimmed(urlFile.lines[k])]

\* C3: a run schedules no task for a URL that was in the log when it started, opens no
\* page for it and does not append it again; the work list is the URLs of the generated
\* file (its non-blank lines, trimmed), in order, without those in the log.
C3_Resumability ==
    mpc # "start" =>
        /\ \A i \in 1..Len(urls_to_process) : urls_to_process[i] \notin StartLines
        /\ \A k \in 1..Len(processedFile.lines) :
               k > Len(startLog.lines) => processedFile.lines[k] \notin StartLines
        /\ urls_to_process =
               SelectSeq(TrimmedUrlLines, LAMBDA u : u # <<>> /\ u \notin StartLines)

\* a run that found a URL of the file in the log and crawls the others
C3_Witness ==
    /\ mpc = "gather"
    /\ \E k \in 1..Len(urlFile.lines) : urlFile.lines[k] \in StartLines
    /\ \E i \in Tasks : tpc[i] = "done"

AllPagesClosedOnce(i) ==
    \A k \in 1..(MAX_RETRIES + 1) : pages[i][k] = [st |-> "closed", closes |-> 1]

\* C4: no task makes more than MAX_RETRIES + 1 attempts; a task all of whose navigations
\* timed out, with no other failing browser call, returns after exactly MAX_RETRIES + 1
\* navigations with a failure outcome, each attempt having opened and closed its own page.
C4_RetryBound ==
    \A i \in Tasks :
        /\ attempt[i] <= MAX_RETRIES
        /\ navAttempts[i] <= MAX_RETRIES + 1
        /\ (tpc[i] = "done" /\ navAttempts[i] > 0 /\ navTimeouts[i] = navAttempts[i]
                /\ otherFaults[i] = 0)
           => /\ navAttempts[i] = MAX_RETRIES + 1
              /\ HasResult(i)
              /\ ResultOf(i) = <<"Failed", "Timeout">>
              /\ AllPagesClosedOnce(i)

\* a task returned after its navigation timed out on every attempt
C4_Witness ==
    \E i \in Tasks :
        tpc[i] = "done" /\ navTimeouts[i] = MAX_RETRIES + 1 /\ otherFaults[i] = 0

\* C5 (as claimed): no exception leaves click_buttons_on_page: no task ends with one.
C5_NoExceptionEscapes ==
    \A i \in Tasks : tpc[i] # "crashed"

Clean(i) == navTimeouts[i] = 0 /\ otherFaults[i] = 0

StatusFor(c) == IF c = "clicked" THEN "Clicked" ELSE "Skipped (Not found/disabled)"

\* C6: a missing button by itself never fails or retries the URL.  In a task whose other
\* browser calls all succeeded, a missing first button leaves the task at the second
\* click, and the task returns from its first attempt with a "Success" outcome that
\* records each missing button as skipped, both clicks having been attempted.
C6_MissingButton ==
    \A i \in Tasks :
        Clean(i) =>
            /\ (tpc[i] \in Holding /\ cond[i][1] = "absent")
               => /\ tpc[i] \in {"click2", "close"}
                  /\ status_b1[i] = "Skipped (Not found/disabled)"
            /\ (tpc[i] = "done")
               => /\ navAttempts[i] = 1
                  /\ attempt[i] = 0
                  /\ cond[i][1] \in {"absent", "clicked"}
                  /\ cond[i][2] \in {"absent", "clicked"}
                  /\ HasResult(i)
                  /\ ResultOf(i) = <<"Success", StatusFor(cond[i][1]), StatusFor(cond[i][2])>>

\* a task returned from a page without the first button, having clicked the second
C6_Witness ==
    \E i \in Tasks :
        /\ tpc[i] = "done"
        /\ Clean(i)
        /\ cond[i] = <<"absent", "clicked">>

\* both buttons missing
C6_WitnessBoth ==
    \E i \in Tasks :
        /\ tpc[i] = "done"
        /\ Clean(i)
        /\ cond[i] = <<"absent", "absent">>

\* C7 (as claimed): a click on a present control that fails, by timeout or by another
\* error, is recorded as a skipped action and the task goes on to the next action; it
\* never enters the except block of the attempt.
C7_ClickFailureContained ==
    \A i \in Tasks : \A b \in {1, 2} :
        cond[i][b] \in {"unclickable", "error"} =>
            /\ (IF b = 1 THEN status_b1[i] ELSE status_b2[i]) = "Skipped (Not found/disabled)"
            /\ tpc[i] \notin {"hclose", "sleep"}

\* C8 (as claimed): page.close() is called at most once on a page, the except block of
\* an attempt closes the page that attempt opened, and a task that returned has closed
\* every page it opened exactly once.
C8_PageLifecycle ==
    \A i \in Tasks :
        /\ \A k \in 1..(MAX_RETRIES + 1) : pages[i][k].closes <= 1
        /\ tpc[i] = "hclose" => page[i] = attempt[i] + 1
        /\ tpc[i] = "done" =>
               \A k \in 1..(MAX_RETRIES + 1) :
                   pages[i][k].st # "open" /\ (pages[i][k].st = "closed" => pages[i][k].closes = 1)

\* C9: no task exists before the session artifact is on disk.  A run that found no
\* artifact reaches the headless browser only after the visible browser was opened, the
\* operator closed the window and the artifact was written once; a run that found one
\* opens no visible browser and never writes the artifact.
C9_SessionBootstrap ==
    /\ Tasks # {} => authFile
    /\ authWrites <= 1
    /\ (mpc \in {"h_launch", "h_context", "h_stealth", "gather", "h_close", "pw_stop"}
            /\ ~authAtStart)
       => authFile /\ authWrites = 1 /\ loginSignalled /\ browserV = "closed"
    /\ (mpc # "start" /\ authAtStart)
       => authFile /\ authWrites = 0 /\ ~loginSignalled /\ browserV = "none"

\* tasks run after a login that wrote the artifact
C9_Witness ==
    /\ mpc = "gather"
    /\ ~authAtStart
    /\ authWrites = 1
    /\ \E i \in Tasks : tpc[i] = "goto"

SeparatorsOf(t) == {k \in 1..Len(t) : t[k] = Separator}
Least(S) == CHOOSE k \in S : \A j \in S : k <= j

\* the characters between the first separator and the next one (or the end of the line)
TokenAfterFirst(t) ==
    LET p == Least(SeparatorsOf(t))
        q == Least({k \in SeparatorsOf(t) : k > p} \cup {Len(t) + 1})
    IN  SubSeq(t, p + 1, q - 1)

\* the URLs the first n input lines call for
RECURSIVE ExpectedUrls(_, _)
ExpectedUrls(lines, n) ==
    IF n = 0 THEN <<>>
    ELSE LET t == Trimmed(lines[n])
         IN  ExpectedUrls(lines, n - 1) \o
                 (IF SeparatorsOf(t) = {} THEN <<>>
                  ELSE << <<"https://remilia.com/~">> \o TokenAfterFirst(t) >>)

\* C10: the output file holds one URL per input line with a separator, in input order,
\* each the template followed by the token after the first separator of the trimmed
\* line; lines without a separator contribute nothing.
C10_BuilderOutput ==
    /\ bpc = "loop" => urlFile.lines = ExpectedUrls(infile.lines, bidx)
    /\ bpc = "done" =>
           /\ bidx = Len(infile.lines)
           /\ urlFile.lines = ExpectedUrls(infile.lines, Len(infile.lines))

\* a line without separator skipped, the second field of a three-field line taken
C10_Witness ==
    /\ bpc = "done"
    /\ infile.lines = << <<"a">>, <<"~", "~">> >>
    /\ urlFile.lines = << <<"https://remilia.com/~">> >>

\* a non-blank trimmed line without the separator, or with nothing after its first separator
Malformed(t) == t # <<>> /\ (SeparatorsOf(t) = {} \/ Least(SeparatorsOf(t)) = Len(t))

\* the input lines the loop has gone through, trimmed
LinesDone == [k \in 1..bidx |-> Trimmed(infile.lines[k])]

\* C11 (as claimed): every input line without the separator, or with the separator and
\* nothing after it, produces no URL and a warning of its own (blank lines set aside),
\* and the loop goes on to the lines that follow.
C11_MalformedRecords ==
    bpc \in {"loop", "done"} =>
        /\ warnings = SelectSeq(LinesDone, Malformed)
        /\ Len(urlFile.lines) = Len(SelectSeq(LinesDone, LAMBDA t : SeparatorsOf(t) # {} /\ ~Malformed(t)))
        /\ bpc = "done" => bidx = Len(infile.lines)

\* C12: a run that finds no generated-URL file returns at once, without an exception:
\* no browser is launched, the operator is never asked to log in, no task exists, no
\* summary is printed, and the processed-URL log and the session artifact are as the run
\* found them.
C12_MissingUrlFile ==
    (~urlFile.exists /\ mpc # "start") =>
        /\ mpc = "returned"
        /\ browserV = "none" /\ browserH = "none"
        /\ ~loginSignalled /\ authWrites = 0
        /\ Tasks = {} /\ urls_to_process = <<>> /\ results = <<>> /\ summary = <<>>
        /\ processedFile = startLog
        /\ authFile = authAtStart

\* a run without a generated-URL file has returned, a log and no session artifact on disk
C12_Witness ==
    /\ ~urlFile.exists
    /\ mpc = "returned"
    /\ processedFile.exists
    /\ ~authFile

\* C13 (as claimed): a run interrupted while its tasks are gathered ends with the
\* interrupt handled and the headless browser closed, whatever its tasks were doing.
C13_InterruptHandled ==
    mpc = "interrupted" => browserH = "closed"

\* the status task i holds for action b
Recorded(i, b) == IF b = 1 THEN status_b1[i] ELSE status_b2[i]

\* C14 (as claimed): the status recorded for an action tells its three results apart: a
\* control that is absent and a control that is present but whose click failed are never
\* recorded with the same status, and neither is recorded as clicked.
C14_DistinctResults ==
    \A i \in Tasks : \A j \in Tasks : \A b \in {1, 2} : \A c \in {1, 2} :
        /\ cond[i][b] \in {"absent", "unclickable"} => Recorded(i, b) # "Clicked"
        /\ (cond[i][b] = "absent" /\ cond[j][c] = "unclickable")
           => Recorded(i, b) # Recorded(j, c)

\* the entries of the results list that begin with "Success"
Successes == {k \in 1..Len(results) : results[k][2][1] = "Success"}

\* C15: once the summary is printed every scheduled task has finished, the results list
\* holds exactly one outcome for each of them, each beginning with "Success" or "Failed",
\* the reported count is the number of "Success" outcomes and the reported total is the
\* number of URLs of the work list, each of them attempted and logged in this run.
C15_Summary ==
    summary # <<>> =>
        /\ \A i \in Tasks : tpc[i] = "done" /\ appends[i] = 1
        /\ Len(results) = Len(urls_to_process)
        /\ \A i \in Tasks :
               Cardinality({k \in 1..Len(results) : results[k][1] = urls_to_process[i]}) = 1
        /\ \A k \in 1..Len(results) : results[k][2][1] \in {"Success", "Failed"}
        /\ summary[1] = Cardinality(Successes)
        /\ summary[2] = Len(urls_to_process)
        /\ summary[2] = Cardinality(Tasks)

\* a summary that reports fewer successes than URLs: a task failed after its retries
C15_Witness ==
    /\ summary # <<>>
    /\ summary[1] < summary[2]
    /\ \E k \in 1..Len(results) : results[k][2][1] = "Failed"

IsPrefix(s, t) == Len(s) <= Len(t) /\ SubSeq(t, 1, Len(s)) = s

\* C16: the processed-URL log is append-only.  In every step, of a run or from one run to
\* the next, the log stays on disk if it was there and its lines before the step are a
\* prefix of its lines after it.
C16_AppendOnly ==
    [][/\ processedFile.exists => processedFile'.exists
       /\ IsPrefix(processedFile.lines, processedFile'.lines)]_vars

\* a second run has appended to a log that the first run had already extended
C16_Witness ==
    /\ runs = 2
    /\ startLog.exists
    /\ Len(startLog.lines) >= 2
    /\ Len(processedFile.lines) > Len(startLog.lines)

\* the lines this run has added to the log
Appended == SubSeq(processedFile.lines, Len(startLog.lines) + 1, Len(processedFile.lines))

\* C17: appends are serialized.  The lines a run has added to the log are the URLs of the
\* tasks that returned, whole, one per line, in the order the tasks returned (the order
\* of the results list), whatever the interleaving of the tasks.
C17_SerializedAppends ==
    mpc # "start" =>
        /\ IsPrefix(startLog.lines, processedFile.lines)
        /\ Appended = [k \in 1..Len(results) |-> results[k][1]]
        /\ \A k \in 1..Len(Appended) : \E i \in Tasks : Appended[k] = urls_to_process[i]

\* the second task returned before the first, then the first, a third still on its page
C17_Witness ==
    /\ mpc = "gather"
    /\ Len(urls_to_process) >= 3
    /\ Appended = <<urls_to_process[2], urls_to_process[1]>>
    /\ \E i \in Tasks : tpc[i] \in {"click1", "click2", "close"}

\* the URLs that have started (their task took a slot) and are not yet in the log
InProgress == {i \in Tasks : tpc[i] \in Holding \cup {"crashed"} /\ appends[i] = 0}

\* C18 (as claimed): while the tasks are gathered every URL in progress holds one slot,
\* from before its first attempt until after its append, backoff sleeps included: the
\* free slots are those no URL in progress holds, at most MAX_CONCURRENT_PAGES URLs are
\* in progress, and with MAX_CONCURRENT_PAGES tasks backing off no slot is free.
C18_SlotHeld ==
    mpc = "gather" =>
        /\ sem = MAX_CONCURRENT_PAGES - Cardinality(InProgress)
        /\ Cardinality(InProgress) <= MAX_CONCURRENT_PAGES
        /\ Cardinality({i \in Tasks : tpc[i] = "sleep"}) = MAX_CONCURRENT_PAGES => sem = 0

LogLines == {processedFile.lines[k] : k \in 1..Len(processedFile.lines)}

\* C19 (as claimed): the gather of an uninterrupted run ends in one way only: every
\* scheduled task has taken a slot and completed, every URL of the work list is in the
\* processed-URL log, and main() goes on to close the browser.
C19_GatherCompletes ==
    [][(mpc = "gather" /\ mpc' # "gather" /\ mpc' # "interrupted")
          => /\ mpc' = "h_close"
             /\ \A i \in Tasks : tpc[i] = "done" /\ urls_to_process[i] \in LogLines]_vars

\* C20 (as claimed): over all the attempts of a task each of the two buttons is clicked
\* successfully at most once: an attempt that clicked a button is never followed by
\* another attempt that clicks it again.
C20_ClickedAtMostOnce ==
    \A i \in Tasks : \A b \in {1, 2} : clicks[i][b] <= 1

====
